---- MODULE Spec2Model ----
(***************************************************************************)
(* Entity tree engine of hbp_service_client.storage_service.entity.        *)
(*                                                                         *)
(* An Entity object is a heap cell.  The caller keeps one variable; the    *)
(* object it holds has identity Root and the i-th object appended to the   *)
(* children list of object e has identity Append(e, i).  Objects that are  *)
(* no longer reachable from the caller's variable are dropped from the     *)
(* heap (Python's garbage collection).                                     *)
(*                                                                         *)
(* Every public method is one action.  The method body is a function from  *)
(* an execution record st (heap, store, call log, error raised) to the     *)
(* execution record after it; a raised exception is st.err # NoErr and     *)
(* every later statement is skipped.  The variable last holds what the     *)
(* caller observes of the call: the exception, the value returned, and the *)
(* requests the gateway sent.  The caller takes note of it (Return) before *)
(* it makes its next call.                                                 *)
(***************************************************************************)
EXTENDS Integers, Sequences, FiniteSets, TLC

VARIABLES
    client,     \* Entity.__client is bound (class attribute)
    heap,       \* the Entity objects reachable from the caller's variables
    store,      \* the remote storage service: uuid -> record
    disk,       \* the local file system: path -> "dir" | "file"
    written,    \* path of a downloaded file -> uuid whose content it holds
    pageSize,   \* page size the service applies to listings
    lsOrder,    \* order in which os.listdir returns directory entries
    last        \* the last call the caller made and how it ended

vars == <<client, heap, store, disk, written, pageSize, lsOrder, last>>

----------------------------------------------------------------------------
(* Bounds *)

MaxPageSize == 2
MaxStore == 7
MaxFailAt == 3

----------------------------------------------------------------------------
(* Values *)

None == 0                       \* uuid None
NoParent == <<0>>               \* parent None
NoPath == <<"?">>               \* _disk_location None
NoName == "?"
NoErr == "none"
NoFail == 99                    \* the gateway never fails in this call

MissingUuid == 98               \* a well-formed uuid the service does not know
InvalidUuid == -1               \* not a well-formed uuid

Names == {"a", "b", "ab"}

\* the characters of a name or of a pattern
Chars(n) ==
    CASE n = "a" -> <<1>>
      [] n = "b" -> <<2>>
      [] n = "ab" -> <<1, 2>>
      [] n = "ba" -> <<2, 1>>
      [] OTHER -> <<>>

\* string comparison s < t of two names
NameLess(s, t) ==
    LET a == Chars(s)
        b == Chars(t)
        RECURSIVE Lt(_)
        Lt(i) == IF i > Len(b) THEN FALSE
                 ELSE IF i > Len(a) THEN TRUE
                 ELSE IF a[i] # b[i] THEN a[i] < b[i]
                 ELSE Lt(i + 1)
    IN Lt(1)

_SUBTREE_TYPES == {"project", "folder"}

Range(s) == {s[i] : i \in 1..Len(s)}

RECURSIVE SeqOfSet(_)
\* the elements of a set of numbers as an ascending sequence
SeqOfSet(S) ==
    IF S = {} THEN <<>>
    ELSE LET m == CHOOSE x \in S : \A y \in S : x <= y
         IN <<m>> \o SeqOfSet(S \ {m})

Reverse(s) == [i \in 1..Len(s) |-> s[Len(s) + 1 - i]]

IsPrefix(p, s) == Len(p) <= Len(s) /\ SubSeq(s, 1, Len(p)) = p

----------------------------------------------------------------------------
(* The remote storage service behind ApiClient *)

Uuids == 1..Len(store)

StoreNode(t, n, p) == [entity_type |-> t, name |-> n, parent |-> p, content |-> FALSE]

\*  1 project "ab"
\*     2 folder "b"
\*        4 file "ab"
\*     3 file "a"
\*  5 folder "a"      (empty)
InitStore ==
    << StoreNode("project", "ab", None),
       StoreNode("folder", "b", 1),
       StoreNode("file", "a", 1),
       StoreNode("file", "ab", 2),
       StoreNode("folder", "a", None) >>

\* the record the service returns for uuid u
Details(s, u) ==
    [entity_type |-> s[u].entity_type, uuid |-> u, name |-> s[u].name]

RECURSIVE SortByName(_, _)
\* the uuids in U ascending by name (by uuid among equal names)
SortByName(s, U) ==
    IF U = {} THEN <<>>
    ELSE LET m == CHOOSE u \in U : \A v \in U \ {u} :
                      \/ NameLess(s[u].name, s[v].name)
                      \/ (s[u].name = s[v].name /\ u < v)
         IN <<m>> \o SortByName(s, U \ {m})

\* the children of folder f that pass the name and entity_type filters, in
\* the order the service lists them
Listing(s, f, name, etype, ordering) ==
    LET match == {u \in 1..Len(s) :
                    /\ s[u].parent = f
                    /\ (name = NoName \/ s[u].name = name)
                    /\ (etype = NoName \/ s[u].entity_type = etype)}
    IN IF ordering = "name" THEN SortByName(s, match) ELSE SeqOfSet(match)

\* the body of the response to GET folder/<f>/children/
ListResponse(s, ps, f, name, etype, page, ordering) ==
    LET Page(all) ==
            LET first == (page - 1) * ps + 1
                lst == IF page * ps < Len(all) THEN page * ps ELSE Len(all)
            IN [count |-> Len(all),
                results |-> [i \in 1..(IF lst >= first THEN lst - first + 1 ELSE 0)
                                |-> Details(s, all[first + i - 1])],
                next |-> IF page * ps < Len(all) THEN page + 1 ELSE None]
    IN Page(Listing(s, f, name, etype, ordering))

\* the path of uuid u in the service, as the sequence of names from the top
RECURSIVE StorePath(_, _)
StorePath(s, u) ==
    IF s[u].parent = None THEN <<s[u].name>>
    ELSE Append(StorePath(s, s[u].parent), s[u].name)

----------------------------------------------------------------------------
(* The execution record and the gateway calls *)

\* a call of ApiClient method op made by Entity object self (NoParent for a
\* class method) whose uuid was self_uuid when it made the call
Call(h, self, op, id, name, parent, page, ordering, etype) ==
    [op |-> op, self |-> self,
     self_uuid |-> IF self = NoParent THEN None ELSE h[self].uuid,
     id |-> id, name |-> name, parent |-> parent, page |-> page,
     ordering |-> ordering, etype |-> etype]

Exec(h, s, budget) ==
    [heap |-> h, store |-> s, disk |-> <<>>, written |-> <<>>, calls |-> <<>>,
     visited |-> <<>>, listed |-> <<>>, budget |-> budget, err |-> NoErr,
     result |-> <<>>]

Raise(st, e) == [st EXCEPT !.err = e]

\* the request c is sent; it is answered unless the service fails on it
Request(st, c) ==
    IF st.budget = 0
    THEN [st EXCEPT !.calls = Append(@, c), !.err = "StorageException"]
    ELSE [st EXCEPT !.calls = Append(@, c),
                    !.budget = IF @ = NoFail THEN NoFail ELSE @ - 1]

----------------------------------------------------------------------------
(* Entity *)

\* Entity.__init__
NewEntity(entity_type, uuid, name) ==
    [entity_type |-> entity_type, uuid |-> uuid, name |-> name,
     children |-> <<>>, parent |-> NoParent, disk_location |-> NoPath,
     from_service |-> TRUE]

\* Entity.from_dictionary
from_dictionary(d) == NewEntity(d.entity_type, d.uuid, d.name)

\* the objects of heap h in the tree below object e, e excluded
Below(h, e) == {x \in DOMAIN h : IsPrefix(e, x) /\ x # e}

\* heap h after the objects in D became unreachable
Drop(h, D) == [x \in (DOMAIN h) \ D |-> h[x]]

\* heap h with object x stored at identity e
Put(h, e, x) == [y \in (DOMAIN h) \cup {e} |-> IF y = e THEN x ELSE h[y]]

\* self.children.append(x) / one element of self.children.extend(...)
AppendChild(h, e, x) ==
    LET c == Append(e, Len(h[e].children) + 1)
    IN [Put(h, c, x) EXCEPT ![e].children = Append(@, c)]

RECURSIVE ExtendChildren(_, _, _)
\* self.children.extend(xs)
ExtendChildren(h, e, xs) ==
    IF xs = <<>> THEN h
    ELSE ExtendChildren(AppendChild(h, e, Head(xs)), e, Tail(xs))

----------------------------------------------------------------------------
(* The local file system *)

\* A path is the sequence of its segments: <<"a", "b">> is "/a/b".  <<>> is
\* the empty string, a first segment "." makes the path relative, a last
\* segment "" is a trailing separator.
NotAString == <<"?int">>

\*  /a        directory
\*  /a/a      file
\*  /a/b      directory
\*  /a/b/ab   file
InitDisk ==
    (<<"a">> :> "dir") @@ (<<"a", "a">> :> "file") @@ (<<"a", "b">> :> "dir")
    @@ (<<"a", "b", "ab">> :> "file")

\* os.path.join(path, name)
join(path, name) == Append(path, name)

\* os.path.basename(path)
basename(path) == path[Len(path)]

\* os.listdir(path): the names in directory path, in the order the file
\* system returns them
listdir(d, order, path) ==
    LET names == {n \in Names : join(path, n) \in DOMAIN d}
        rank(n) == CHOOSE k \in 0..Cardinality(names) :
                       k = Cardinality({m \in names : NameLess(m, n)})
        asc == [i \in 1..Cardinality(names) |->
                   CHOOSE n \in names : rank(n) = i - 1]
    IN IF order = "asc" THEN asc ELSE Reverse(asc)

\* Entity.from_disk: [err, entity]
from_disk(d, path0) ==
    IF path0 = <<>>
    THEN [err |-> "EntityArgumentException", entity |-> NewEntity("file", None, NoName)]
    ELSE IF path0 = NotAString
    THEN [err |-> "EntityArgumentException", entity |-> NewEntity("file", None, NoName)]
    ELSE IF path0[1] = "."
    THEN [err |-> "EntityArgumentException", entity |-> NewEntity("file", None, NoName)]
    ELSE LET path == IF path0[Len(path0)] = "" THEN SubSeq(path0, 1, Len(path0) - 1)
                     ELSE path0
         IN IF path \notin DOMAIN d
            THEN [err |-> "EntityArgumentException",
                  entity |-> NewEntity("file", None, NoName)]
            ELSE IF d[path] \notin {"dir", "file"}
            THEN [err |-> "EntityArgumentException",
                  entity |-> NewEntity("file", None, NoName)]
            ELSE [err |-> NoErr,
                  entity |-> [NewEntity(IF d[path] = "dir" THEN "folder" ELSE "file",
                                        None, basename(path))
                              EXCEPT !.disk_location = path,
                                     !.from_service = FALSE]]

----------------------------------------------------------------------------
(* Discovery *)

\* validators.uuid(u) as ApiClient applies it to its arguments
is_valid_uuid(u) == u \notin {None, InvalidUuid}

\* the loop stops after the first page whatever the response says
ExplorePages_FirstOnly(st, ps, e, page) ==
    LET Received(st1, partial_results) ==
            IF st1.err # NoErr THEN st1
            ELSE [st1 EXCEPT !.heap = ExtendChildren(@, e,
                     [i \in 1..Len(partial_results.results) |->
                         from_dictionary(partial_results.results[i])])]
    IN IF ~is_valid_uuid(st.heap[e].uuid) THEN Raise(st, "StorageArgumentException")
       ELSE Received(Request(st, Call(st.heap, e, "list_folder_content",
                                      st.heap[e].uuid, NoName, None, page, "name",
                                      NoName)),
                     ListResponse(st.store, ps, st.heap[e].uuid, NoName, NoName,
                                  page, "name"))

RECURSIVE ExplorePages(_, _, _, _)
\* the while loop of Entity.explore_children, from page number page on
ExplorePages(st, ps, e, page) ==
    LET Extended(st2, more) ==
            IF more THEN ExplorePages(st2, ps, e, page + 1) ELSE st2
        Received(st1, partial_results) ==
            IF st1.err # NoErr THEN st1
            ELSE Extended([st1 EXCEPT !.heap = ExtendChildren(@, e,
                              [i \in 1..Len(partial_results.results) |->
                                  from_dictionary(partial_results.results[i])])],
                          partial_results.next # None)
    IN IF ~is_valid_uuid(st.heap[e].uuid) THEN Raise(st, "StorageArgumentException")
       ELSE Received(Request(st, Call(st.heap, e, "list_folder_content",
                                      st.heap[e].uuid, NoName, None, page, "name",
                                      NoName)),
                     ListResponse(st.store, ps, st.heap[e].uuid, NoName, NoName,
                                  page, "name"))

RECURSIVE ExploreDisk(_, _, _, _)
\* the for loop over listdir of Entity.explore_children
ExploreDisk(st, d, e, names) ==
    IF names = <<>> THEN st
    ELSE LET Made(child) ==
                 IF child.err # NoErr THEN Raise(st, child.err)
                 ELSE ExploreDisk([st EXCEPT !.heap = AppendChild(@, e, child.entity)],
                                  d, e, Tail(names))
         IN Made(from_disk(d, join(st.heap[e].disk_location, Head(names))))

\* the children are left without their parent
SetParents_Skipped(h, e) == h

\* the loop "for child in self.children: child.parent = self"
SetParents(h, e) ==
    [x \in DOMAIN h |->
        IF x \in Range(h[e].children) THEN [h[x] EXCEPT !.parent = e] ELSE h[x]]

\* the reset of the cache left out
ClearChildren_Kept(h, e) == h

\* self.children = []
ClearChildren(h, e) == [Drop(h, Below(h, e)) EXCEPT ![e].children = <<>>]

\* the kind of the entity is not looked at
explore_children_AnyKind(st, env, e) ==
    IF st.err # NoErr THEN st
    ELSE LET Listed(st2) ==
                 IF st2.err # NoErr THEN st2
                 ELSE [st2 EXCEPT !.heap = SetParents(@, e)]
             Cleared(st1) ==
                 IF st1.heap[e].from_service
                 THEN IF ~env.client THEN Raise(st1, "Exception")
                      ELSE ExplorePages(st1, env.pageSize, e, 1)
                 ELSE ExploreDisk([st1 EXCEPT !.listed =
                                      Append(@, st1.heap[e].disk_location)],
                          env.disk, e,
                          listdir(env.disk, env.lsOrder, st1.heap[e].disk_location))
         IN Listed(Cleared([st EXCEPT !.heap = ClearChildren(@, e)]))

\* Entity.explore_children; st.listed logs the directories given to
\* os.listdir
explore_children(st, env, e) ==
    IF st.err # NoErr THEN st
    ELSE IF st.heap[e].entity_type \notin _SUBTREE_TYPES
    THEN Raise(st, "EntityInvalidOperationException")
    ELSE LET Listed(st2) ==
                 IF st2.err # NoErr THEN st2
                 ELSE [st2 EXCEPT !.heap = SetParents(@, e)]
             Cleared(st1) ==
                 IF st1.heap[e].from_service
                 THEN IF ~env.client THEN Raise(st1, "Exception")
                      ELSE ExplorePages(st1, env.pageSize, e, 1)
                 ELSE ExploreDisk([st1 EXCEPT !.listed =
                                      Append(@, st1.heap[e].disk_location)],
                          env.disk, e,
                          listdir(env.disk, env.lsOrder, st1.heap[e].disk_location))
         IN Listed(Cleared([st EXCEPT !.heap = ClearChildren(@, e)]))

\* only the starting folder is explored, its folders are not queued
ExploreLoop_RootOnly(st, env, folders_to_explore) ==
    IF st.err # NoErr \/ folders_to_explore = <<>> THEN st
    ELSE explore_children(st, env, folders_to_explore[Len(folders_to_explore)])

RECURSIVE ExploreLoop_DepthFirst(_, _, _)
\* the folders found are put on the end of the list that pop() takes from,
\* the first of them last: a stack
ExploreLoop_DepthFirst(st, env, folders_to_explore) ==
    IF st.err # NoErr \/ folders_to_explore = <<>> THEN st
    ELSE LET n == Len(folders_to_explore)
             current_folder == folders_to_explore[n]
             Explored(st1) ==
                 LET kids == IF st1.err # NoErr THEN <<>>
                             ELSE st1.heap[current_folder].children
                     folders == SelectSeq(kids,
                                    LAMBDA c : st1.heap[c].entity_type = "folder")
                 IN ExploreLoop_DepthFirst(st1, env,
                        SubSeq(folders_to_explore, 1, n - 1) \o Reverse(folders))
         IN Explored(explore_children(st, env, current_folder))

RECURSIVE ExploreLoop(_, _, _)
\* the while loop of Entity.explore_subtree
ExploreLoop(st, env, folders_to_explore) ==
    IF st.err # NoErr \/ folders_to_explore = <<>> THEN st
    ELSE LET n == Len(folders_to_explore)
             current_folder == folders_to_explore[n]
             Explored(st1) ==
                 LET kids == IF st1.err # NoErr THEN <<>>
                             ELSE st1.heap[current_folder].children
                     folders == SelectSeq(kids,
                                    LAMBDA c : st1.heap[c].entity_type = "folder")
                 IN ExploreLoop(st1, env,
                        Reverse(folders) \o SubSeq(folders_to_explore, 1, n - 1))
         IN Explored(explore_children(st, env, current_folder))

\* the kind of the entity is not looked at
explore_subtree_AnyKind(st, env, e) ==
    IF st.err # NoErr THEN st
    ELSE ExploreLoop([st EXCEPT !.heap = ClearChildren(@, e)], env, <<e>>)

\* Entity.explore_subtree
explore_subtree(st, env, e) ==
    IF st.err # NoErr THEN st
    ELSE IF st.heap[e].entity_type \in _SUBTREE_TYPES
    THEN ExploreLoop([st EXCEPT !.heap = ClearChildren(@, e)], env, <<e>>)
    ELSE st

----------------------------------------------------------------------------
(* Search *)

NotAStr == "?int"               \* a pattern that is a number, not a str

\* pattern.search(name) for a pattern without special characters: the
\* pattern occurs somewhere in the name
search(pattern, name) ==
    LET p == Chars(pattern)
        n == Chars(name)
    IN \E i \in 0..Len(n) :
          i + Len(p) <= Len(n) /\ SubSeq(n, i + 1, i + Len(p)) = p

\* the children of the entities checked are not queued
SearchLoop_NoDescent(h, regex, entities_to_check, results) ==
    IF entities_to_check = <<>> THEN results
    ELSE LET current_entity == entities_to_check[Len(entities_to_check)]
         IN IF search(regex, h[current_entity].name)
            THEN Append(results, current_entity) ELSE results

RECURSIVE SearchLoop(_, _, _, _)
\* the while loop of Entity.search_subtree
SearchLoop(h, regex, entities_to_check, results) ==
    IF entities_to_check = <<>> THEN results
    ELSE LET n == Len(entities_to_check)
             current_entity == entities_to_check[n]
             results1 == IF search(regex, h[current_entity].name)
                         THEN Append(results, current_entity) ELSE results
         IN SearchLoop(h, regex,
                       Reverse(h[current_entity].children)
                           \o SubSeq(entities_to_check, 1, n - 1),
                       results1)

\* the subtree is explored on every search
search_subtree_Refreshing(st, env, e, regex) ==
    IF st.heap[e].entity_type \notin _SUBTREE_TYPES
    THEN Raise(st, "EntityInvalidOperationException")
    ELSE LET Explored(st1) ==
                 IF st1.err # NoErr THEN st1
                 ELSE IF regex = NotAStr THEN Raise(st1, "EntityArgumentException")
                 ELSE [st1 EXCEPT !.result = SearchLoop(st1.heap, regex, <<e>>, <<>>)]
         IN Explored(explore_subtree(st, env, e))

\* Entity.search_subtree
search_subtree(st, env, e, regex) ==
    IF st.heap[e].entity_type \notin _SUBTREE_TYPES
    THEN Raise(st, "EntityInvalidOperationException")
    ELSE LET Explored(st1) ==
                 IF st1.err # NoErr THEN st1
                 ELSE IF regex = NotAStr THEN Raise(st1, "EntityArgumentException")
                 ELSE [st1 EXCEPT !.result = SearchLoop(st1.heap, regex, <<e>>, <<>>)]
         IN Explored(IF st.heap[e].children = <<>> THEN explore_subtree(st, env, e)
                     ELSE st)

----------------------------------------------------------------------------
(* Upload *)

\* the service creates an entity and returns its record
\* the call is logged with the uuid of the created entity once it is served
Create(st, e, entity_type, name, parent) ==
    LET Sent(st1) ==
            IF st1.err # NoErr THEN st1
            ELSE [st1 EXCEPT !.store = Append(@, StoreNode(entity_type, name, parent)),
                             !.calls[Len(st1.calls)].id = Len(st.store) + 1]
    IN Sent(Request(st, Call(st.heap, e,
                             IF entity_type = "folder" THEN "create_folder"
                             ELSE "create_file",
                             None, name, parent, None, NoName, NoName)))

\* the uuid of the created folder is not stored
load_directory_NoUuid(st, e, parent_uuid) ==
    Create(st, e, "folder", st.heap[e].name, parent_uuid)

\* Entity.__load_directory
load_directory(st, e, parent_uuid) ==
    LET Created(st1) ==
            IF st1.err # NoErr THEN st1
            ELSE [st1 EXCEPT !.heap[e].uuid = Len(st1.store)]
    IN Created(Create(st, e, "folder", st.heap[e].name, parent_uuid))

\* ApiClient.upload_file_content(file_id, source=...)
upload_file_content(st, d, e, file_id, source) ==
    IF source \notin DOMAIN d THEN Raise(st, "IOError")
    ELSE LET Sent(st1) ==
                 IF st1.err # NoErr THEN st1
                 ELSE [st1 EXCEPT !.store[file_id].content = TRUE]
         IN Sent(Request(st, Call(st.heap, e, "upload_file_content", file_id, NoName,
                                  None, None, NoName, NoName)))

\* the file is created and its content is not sent
load_file_NoContent(st, env, e, parent_uuid) ==
    LET Created(st1) ==
            IF st1.err # NoErr THEN st1
            ELSE [st1 EXCEPT !.heap[e].uuid = Len(st1.store)]
    IN Created(Create(st, e, "file", st.heap[e].name, parent_uuid))

\* Entity.__load_file
load_file(st, env, e, parent_uuid) ==
    LET Assigned(st2) ==
            upload_file_content(st2, env.disk, e, st2.heap[e].uuid,
                                st2.heap[e].disk_location)
        Created(st1) ==
            IF st1.err # NoErr THEN st1
            ELSE Assigned([st1 EXCEPT !.heap[e].uuid = Len(st1.store)])
    IN Created(Create(st, e, "file", st.heap[e].name, parent_uuid))

\* every node is created in the destination, whatever its parent
load_IntoDestination(st, env, e, destination) ==
    IF st.heap[e].from_service THEN Raise(st, "EntityException")
    ELSE IF st.heap[e].entity_type = "folder"
    THEN load_directory(st, e, destination)
    ELSE load_file(st, env, e, destination)

\* Entity.__load
load(st, env, e, destination) ==
    IF st.heap[e].from_service THEN Raise(st, "EntityException")
    ELSE LET parent == st.heap[e].parent
             parent_uuid == IF parent # NoParent /\ st.heap[parent].uuid # None
                            THEN st.heap[parent].uuid ELSE destination
         IN IF st.heap[e].entity_type = "folder"
            THEN load_directory(st, e, parent_uuid)
            ELSE load_file(st, env, e, parent_uuid)

----------------------------------------------------------------------------
(* Download: st.disk and st.written are the file system during the call    *)

\* os.path.dirname(path)
dirname(path) == SubSeq(path, 1, Len(path) - 1)

\* os.path.isdir(path); "/" is a directory
isdir(d, path) == path = <<>> \/ (path \in DOMAIN d /\ d[path] = "dir")

\* os.path.isfile(path)
isfile(d, path) == path \in DOMAIN d /\ d[path] = "file"

\* Entity.__create_directory: os.mkdir fails when the path exists and when
\* the directory it is to be created in does not
create_directory(st, e) ==
    LET path == st.heap[e].disk_location
    IN IF path \in DOMAIN st.disk \/ ~isdir(st.disk, dirname(path))
       THEN Raise(st, "OSError")
       ELSE [st EXCEPT !.disk = (path :> "dir") @@ @]

\* ApiClient.get_signed_url(file_id)
get_signed_url(st, e, file_id) ==
    IF ~is_valid_uuid(file_id) THEN Raise(st, "StorageArgumentException")
    ELSE LET Sent(st1) ==
                 IF st1.err # NoErr THEN st1
                 ELSE IF file_id \notin 1..Len(st.store)
                 THEN Raise(st1, "StorageNotFoundException")
                 ELSE [st1 EXCEPT !.result = <<file_id>>]
         IN Sent(Request(st, Call(st.heap, e, "get_signed_url", file_id, NoName,
                                  None, None, NoName, NoName)))

\* ApiClient.download_signed_url(signed_url); the url stands for the file
download_signed_url(st, e, signed_url) ==
    Request(st, Call(st.heap, e, "download_signed_url", signed_url, NoName,
                     None, None, NoName, NoName))

\* open(path, "wb") and the writing of the chunks: open fails on a
\* directory and in a directory that does not exist
write_chunks(st, path, file_id) ==
    IF path \in DOMAIN st.disk \/ ~isdir(st.disk, dirname(path))
    THEN Raise(st, "OSError")
    ELSE [st EXCEPT !.disk = (path :> "file") @@ @,
                    !.written = (path :> file_id) @@ @]

\* the test for a file at the target path left out
write_file_Overwriting(st, e) ==
    LET path == st.heap[e].disk_location
        Streamed(st2) ==
            IF st2.err # NoErr THEN st2
            ELSE IF isdir(st2.disk, path) \/ ~isdir(st2.disk, dirname(path))
            THEN Raise(st2, "OSError")
            ELSE [st2 EXCEPT !.disk = (path :> "file") @@ @,
                             !.written = (path :> st2.heap[e].uuid) @@ @]
        Signed(st1) ==
            IF st1.err # NoErr THEN st1
            ELSE Streamed(download_signed_url([st1 EXCEPT !.result = <<>>], e,
                                              st1.result[1]))
    IN Signed(get_signed_url(st, e, st.heap[e].uuid))

\* Entity.__write_file
write_file(st, e) ==
    LET path == st.heap[e].disk_location
        Streamed(st2) ==
            IF st2.err # NoErr THEN st2
            ELSE write_chunks(st2, path, st2.heap[e].uuid)
        Signed(st1) ==
            IF st1.err # NoErr THEN st1
            ELSE Streamed(download_signed_url([st1 EXCEPT !.result = <<>>], e,
                                              st1.result[1]))
    IN IF isfile(st.disk, path) THEN Raise(st, "OSError")
       ELSE Signed(get_signed_url(st, e, st.heap[e].uuid))

\* a target path recorded by an earlier download is kept
write_Recorded(st, e, destination, relative_root) ==
    LET Located(st1) ==
            IF st1.heap[e].entity_type \in _SUBTREE_TYPES
            THEN create_directory(st1, e)
            ELSE IF st1.heap[e].entity_type = "file" THEN write_file(st1, e)
            ELSE st1
    IN IF st.heap[e].disk_location # NoPath THEN Located(st)
       ELSE IF e = relative_root
       THEN Located([st EXCEPT !.heap[e].disk_location =
                        join(destination, st.heap[e].name)])
       ELSE IF st.heap[e].parent = NoParent THEN Raise(st, "AttributeError")
       ELSE Located([st EXCEPT !.heap[e].disk_location =
                        join(st.heap[st.heap[e].parent].disk_location,
                             st.heap[e].name)])

\* Entity.__write; a parent that is None has no _disk_location
write(st, e, destination, relative_root) ==
    LET Located(st1) ==
            IF st1.heap[e].entity_type \in _SUBTREE_TYPES
            THEN create_directory(st1, e)
            ELSE IF st1.heap[e].entity_type = "file" THEN write_file(st1, e)
            ELSE st1
    IN IF e = relative_root
       THEN Located([st EXCEPT !.heap[e].disk_location =
                        join(destination, st.heap[e].name)])
       ELSE IF st.heap[e].parent = NoParent THEN Raise(st, "AttributeError")
       ELSE Located([st EXCEPT !.heap[e].disk_location =
                        join(st.heap[st.heap[e].parent].disk_location,
                             st.heap[e].name)])

\* getattr(current_entity, method)(*args, **kwargs): arg is the destination
\* uuid of "__load", <<destination, relative_root>> of "__write"
Invoke(st, env, method, e, arg) ==
    IF method = "__load" THEN load(st, env, e, arg)
    ELSE write(st, e, arg[1], arg[2])

RECURSIVE ProcessLoop_ChildrenFirst(_, _, _, _, _)
\* the children are queued behind the entities still waiting, so that they
\* are popped before them; the popped entity is processed after its subtree
ProcessLoop_ChildrenFirst(st, env, method, arg, entities_to_process) ==
    IF st.err # NoErr \/ entities_to_process = <<>> THEN st
    ELSE LET n == Len(entities_to_process)
             current_entity == entities_to_process[n]
             st1 == ProcessLoop_ChildrenFirst(st, env, method, arg,
                                              st.heap[current_entity].children)
             st2 == [st1 EXCEPT !.visited = Append(@, current_entity)]
             st3 == Invoke(st2, env, method, current_entity, arg)
         IN IF st1.err # NoErr THEN st1
            ELSE ProcessLoop_ChildrenFirst(st3, env, method, arg,
                                           SubSeq(entities_to_process, 1, n - 1))

RECURSIVE ProcessLoop(_, _, _, _, _)
\* the while loop of Entity.__process_subtree; method is "__load"
ProcessLoop(st, env, method, arg, entities_to_process) ==
    IF st.err # NoErr \/ entities_to_process = <<>> THEN st
    ELSE LET n == Len(entities_to_process)
             current_entity == entities_to_process[n]
             rest == Reverse(st.heap[current_entity].children)
                         \o SubSeq(entities_to_process, 1, n - 1)
             st1 == [st EXCEPT !.visited = Append(@, current_entity)]
             st2 == Invoke(st1, env, method, current_entity, arg)
         IN ProcessLoop(st2, env, method, arg, rest)

\* a walk that raised leaves the service and the file system as it found
\* them
process_subtree_RolledBack(st, env, e, method, arg) ==
    LET Walked(st1) ==
            IF st1.err # NoErr
            THEN [st1 EXCEPT !.store = st.store, !.disk = st.disk,
                             !.written = st.written]
            ELSE st1
    IN Walked(ProcessLoop(st, env, method, arg, <<e>>))

\* Entity.__process_subtree
process_subtree(st, env, e, method, arg) ==
    ProcessLoop(st, env, method, arg, <<e>>)

\* os.getcwd(): the caller works in /
getcwd == <<>>

\* the binding of the client is not looked at
download_Unbound(st, env, e, destination) ==
    LET Explored(st1) ==
            IF st1.err # NoErr THEN st1
            ELSE process_subtree(st1, env, e, "__write",
                     <<IF destination = NoPath THEN getcwd ELSE destination, e>>)
    IN Explored(IF st.heap[e].entity_type \in _SUBTREE_TYPES
                   /\ st.heap[e].children = <<>>
                THEN explore_subtree(st, env, e) ELSE st)

\* Entity.download; destination NoPath is None
download(st, env, e, destination) ==
    IF ~env.client THEN Raise(st, "EntityException")
    ELSE LET Explored(st1) ==
                 IF st1.err # NoErr THEN st1
                 ELSE process_subtree(st1, env, e, "__write",
                          <<IF destination = NoPath THEN getcwd ELSE destination, e>>)
         IN Explored(IF st.heap[e].entity_type \in _SUBTREE_TYPES
                        /\ st.heap[e].children = <<>>
                     THEN explore_subtree(st, env, e) ELSE st)

\* the uuid the service resolves a path to, None if there is none
ResolvePath(s, path) ==
    LET hits == {u \in 1..Len(s) : StorePath(s, u) = path}
    IN IF hits = {} THEN None ELSE CHOOSE u \in hits : \A v \in hits : u <= v

\* ApiClient.get_entity_by_query(uuid=..) / (path=..): st, and the uuid of
\* the record returned in st.result
get_entity_by_query(st, e, uuid, path) ==
    IF uuid = InvalidUuid THEN Raise(st, "StorageArgumentException")
    ELSE LET Sent(st1, found) ==
                 IF st1.err # NoErr THEN st1
                 ELSE IF found = None THEN Raise(st1, "StorageNotFoundException")
                 ELSE [st1 EXCEPT !.result = <<found>>]
         IN Sent(Request(st, Call(st.heap, e, "get_entity_by_query", uuid, NoName,
                                  None, None, NoName, NoName)),
                 IF uuid # None
                 THEN (IF uuid \in 1..Len(st.store) THEN uuid ELSE None)
                 ELSE ResolvePath(st.store, path))

\* the count of the listing is ignored
Collides_Never(count) == FALSE

\* the test of the listing's count in Entity.upload
Collides(count) == count # 0

\* the number of destinations given is not looked at
ExactlyOneDestination_Unchecked(destination_path, destination_uuid) == TRUE

\* the test on the two destination arguments in Entity.upload
ExactlyOneDestination(destination_path, destination_uuid) ==
    ~ \/ (destination_path = NoPath /\ destination_uuid = None)
      \/ (destination_path # NoPath /\ destination_uuid # None)

\* the kind of the destination record is not looked at
DestinationIsContainer_Unchecked(parent) == TRUE

\* the test of the destination record's kind in Entity.upload
DestinationIsContainer(parent) == parent.entity_type \in _SUBTREE_TYPES

\* Entity.upload
upload(st, env, e, destination_path, destination_uuid) ==
    IF ~env.client THEN Raise(st, "EntityException")
    ELSE IF ~ExactlyOneDestination(destination_path, destination_uuid)
    THEN Raise(st, "EntityArgumentException")
    ELSE LET query == IF destination_path # NoPath
                      THEN [uuid |-> None, path |-> destination_path]
                      ELSE [uuid |-> destination_uuid, path |-> NoPath]
             Explored(st3, parent) ==
                 IF st3.err # NoErr THEN st3
                 ELSE process_subtree(st3, env, e, "__load", parent.uuid)
             Listed(st2, parent, count) ==
                 IF st2.err # NoErr THEN st2
                 ELSE IF Collides(count) THEN Raise(st2, "EntityUploadException")
                 ELSE Explored(IF st2.heap[e].entity_type \in _SUBTREE_TYPES
                                  /\ st2.heap[e].children = <<>>
                               THEN explore_subtree(st2, env, e) ELSE st2,
                               parent)
             Resolved(st1, parent) ==
                 IF ~DestinationIsContainer(parent)
                 THEN Raise(st1, "EntityArgumentException")
                 ELSE Listed(Request([st1 EXCEPT !.result = <<>>],
                                     Call(st.heap, e, "list_folder_content",
                                          parent.uuid, st.heap[e].name, None, None,
                                          NoName, st.heap[e].entity_type)),
                             parent,
                             ListResponse(st.store, env.pageSize, parent.uuid,
                                          st.heap[e].name, st.heap[e].entity_type,
                                          1, NoName).count)
             Queried(st1) ==
                 IF st1.err # NoErr THEN st1
                 ELSE Resolved(st1, Details(st.store, st1.result[1]))
         IN Queried(get_entity_by_query(st, e, query.uuid, query.path))

----------------------------------------------------------------------------
(* Client.delete *)

\* the record that the service keeps in the place of a deleted entity: no
\* path resolves to it and no listing shows it
Deleted == [entity_type |-> "deleted", name |-> NoName, parent |-> None,
            content |-> FALSE]

RECURSIVE IsUnder(_, _, _)
\* record v is record u or lies below it
IsUnder(s, v, u) ==
    v = u \/ (s[v].parent # None /\ IsUnder(s, s[v].parent, u))

\* the store after the service deleted record u with all its content
Remove(s, u) == [v \in 1..Len(s) |-> IF IsUnder(s, v, u) THEN Deleted ELSE s[v]]

\* ApiClient.delete_folder(folder) and ApiClient.delete_file(file_id); op
\* names the method
delete_entity(st, op, uuid) ==
    IF ~is_valid_uuid(uuid) THEN Raise(st, "StorageArgumentException")
    ELSE LET Sent(st1) ==
                 IF st1.err # NoErr THEN st1
                 ELSE [st1 EXCEPT !.store = Remove(@, uuid)]
         IN Sent(Request(st, Call(st.heap, NoParent, op, uuid, NoName, None,
                                  None, NoName, NoName)))

\* Client.__validate_storage_path: the path is a string, starts with a
\* slash and is longer than the slash; a path of one name is a project
validate_storage_path(st, path, projects_allowed) ==
    IF path = <<>> \/ path = NotAString \/ path[1] = "." \/ path = <<"">>
    THEN Raise(st, "StorageArgumentException")
    ELSE IF ~projects_allowed /\ Cardinality({i \in 1..Len(path) : path[i] # ""}) = 1
    THEN Raise(st, "StorageArgumentException")
    ELSE st

\* every folder counts as empty
HasContent_Never(count) == FALSE

\* the test of the listing's count in Client.delete
HasContent(count) == count > 0

\* Client.delete(path)
delete(st, env, path) ==
    LET Listed(st2, uuid, count) ==
            IF st2.err # NoErr THEN st2
            ELSE IF HasContent(count) THEN Raise(st2, "StorageArgumentException")
            ELSE delete_entity(st2, "delete_folder", uuid)
        Found(st1, entity) ==
            IF entity.entity_type \in _SUBTREE_TYPES
            THEN Listed(Request([st1 EXCEPT !.result = <<>>],
                                Call(st.heap, NoParent, "list_folder_content",
                                     entity.uuid, NoName, None, None, NoName,
                                     NoName)),
                        entity.uuid,
                        ListResponse(st.store, env.pageSize, entity.uuid, NoName,
                                     NoName, 1, NoName).count)
            ELSE IF entity.entity_type = "file"
            THEN delete_entity([st1 EXCEPT !.result = <<>>], "delete_file",
                               entity.uuid)
            ELSE [st1 EXCEPT !.result = <<>>]
        Queried(st1) ==
            IF st1.err # NoErr THEN st1
            ELSE Found(st1, Details(st.store, st1.result[1]))
        Validated(st0) ==
            IF st0.err # NoErr THEN st0
            ELSE Queried(get_entity_by_query(st0, NoParent, None, path))
    IN Validated(validate_storage_path(st, path, FALSE))

----------------------------------------------------------------------------
(* Factories: the caller assigns the new Entity to its variable r *)

Root == <<1>>

Env == [client |-> client, pageSize |-> pageSize, disk |-> disk,
        lsOrder |-> lsOrder]

\* the heap after the caller's variable r was assigned Entity x
Assign(h, r, x) == Put(Drop(h, {r} \cup Below(h, r)), r, x)

\* ApiClient.get_entity_details(entity_id)
get_entity_details(st, uuid) ==
    IF uuid = InvalidUuid THEN Raise(st, "StorageArgumentException")
    ELSE LET Sent(st1) ==
                 IF st1.err # NoErr THEN st1
                 ELSE IF uuid \notin 1..Len(st.store)
                 THEN Raise(st1, "StorageNotFoundException")
                 ELSE [st1 EXCEPT !.result = <<uuid>>]
         IN Sent(Request(st, Call(st.heap, NoParent, "get_entity_details",
                                  uuid, NoName, None, None, NoName, NoName)))

\* r = Entity.from_uuid(uuid)
from_uuid(st, env, r, uuid) ==
    IF ~env.client THEN Raise(st, "EntityException")
    ELSE IF uuid = InvalidUuid THEN Raise(st, "EntityArgumentException")
    ELSE LET Looked(st1) ==
                 IF st1.err # NoErr THEN st1
                 ELSE [st1 EXCEPT !.result = <<>>,
                                  !.heap = Assign(@, r,
                                      from_dictionary(Details(st.store, st1.result[1])))]
         IN Looked(get_entity_details(st, uuid))

\* r = Entity.from_path(path)
from_path(st, env, r, path) ==
    IF ~env.client THEN Raise(st, "EntityException")
    ELSE LET Looked(st1) ==
                 IF st1.err # NoErr THEN st1
                 ELSE [st1 EXCEPT !.result = <<>>,
                                  !.heap = Assign(@, r,
                                      from_dictionary(Details(st.store, st1.result[1])))]
         IN Looked(get_entity_by_query(st, NoParent, None, path))

----------------------------------------------------------------------------
(* The caller *)

Budgets == (0..MaxFailAt) \cup {NoFail}

Last(op, e, arg, st, streak) ==
    [op |-> op, ent |-> e, arg |-> arg, err |-> st.err, calls |-> st.calls,
     visited |-> st.visited, listed |-> st.listed, result |-> st.result,
     streak |-> streak]

Idle == Last("idle", NoParent, <<>>, Exec(<<>>, <<>>, NoFail), 0)

Init ==
    /\ client = FALSE
    /\ heap = <<>>
    /\ store = InitStore
    /\ disk = InitDisk
    /\ written = <<>>
    /\ pageSize \in 1..MaxPageSize
    /\ lsOrder \in {"asc", "desc"}
    /\ last = Idle

\* the caller has taken note of the outcome of its last call
Return ==
    /\ last.op # "idle"
    /\ last' = Idle
    /\ UNCHANGED <<client, heap, store, disk, written, pageSize, lsOrder>>

\* the effects of a call that ended in execution record st
\* (the caller may repeat explore_children on the same entity right away)
Done(op, e, arg, st, streak) ==
    /\ \/ last.op = "idle"
       \/ (op = "explore_children" /\ last.op = op /\ last.ent = e)
    /\ Len(st.store) <= MaxStore
    /\ heap' = st.heap
    /\ store' = st.store
    /\ last' = Last(op, e, arg, st, streak)
    /\ UNCHANGED <<client, disk, written, pageSize, lsOrder>>

\* Entity.set_client
set_client(c) ==
    /\ last.op = "idle"
    /\ client' = IF c = "ApiClient" THEN TRUE ELSE client
    /\ last' = Last("set_client", NoParent, <<c>>,
                    IF c = "ApiClient" THEN Exec(heap, store, NoFail)
                    ELSE Raise(Exec(heap, store, NoFail), "TypeError"), 0)
    /\ UNCHANGED <<heap, store, disk, written, pageSize, lsOrder>>

FromUuid(r, uuid, budget) ==
    Done("from_uuid", r, <<uuid>>, from_uuid(Exec(heap, store, budget), Env, r, uuid), 0)

FromPath(r, path, budget) ==
    Done("from_path", r, <<path>>, from_path(Exec(heap, store, budget), Env, r, path), 0)

FromDisk(r, path) ==
    LET Made(st, x) ==
            IF x.err # NoErr THEN Raise(st, x.err)
            ELSE [st EXCEPT !.heap = Assign(@, r, x.entity)]
    IN Done("from_disk", r, <<path>>,
            Made(Exec(heap, store, NoFail), from_disk(disk, path)), 0)

\* the keys of a dictionary that the model keeps (description, created_by
\* and modified_by carry no behaviour)
RequiredKeys == {"entity_type", "uuid", "name"}

\* r = Entity.from_dictionary(dictionary): a missing key (KeyError) or an
\* argument that is no mapping (TypeError) raises EntityArgumentException
FromDictionary(r, dictionary) ==
    LET Made(st) ==
            IF ~(RequiredKeys \subseteq DOMAIN dictionary)
            THEN Raise(st, "EntityArgumentException")
            ELSE [st EXCEPT !.heap = Assign(@, r, from_dictionary(dictionary))]
    IN Done("from_dictionary", r, <<dictionary>>, Made(Exec(heap, store, NoFail)), 0)

ExploreChildren(e, budget) ==
    LET Explored(st) ==
            Done("explore_children", e, <<>>, st,
                 IF st.err # NoErr THEN 0
                 ELSE IF last.op = "explore_children" /\ last.ent = e
                         /\ last.streak >= 1
                 THEN 2
                 ELSE 1)
    IN Explored(explore_children(Exec(heap, store, budget), Env, e))

ExploreSubtree(e, budget) ==
    Done("explore_subtree", e, <<>>,
         explore_subtree(Exec(heap, store, budget), Env, e), 0)

Patterns == {"", "a", "ab", "ba", NotAStr}

SearchSubtree(e, regex, budget) ==
    Done("search_subtree", e, <<regex>>,
         search_subtree(Exec(heap, store, budget), Env, e, regex), 0)

\* the destinations the caller uploads to, <<path, uuid>>: none, both, the
\* project 1, the file 3, the empty folder 5 (by uuid and by path), and two
\* that the service does not know
Paths == {<<"a">>, <<"ba">>}
Destinations ==
    {<<NoPath, None>>, <<(<<"a">>), 1>>, <<NoPath, 1>>, <<NoPath, 3>>,
     <<NoPath, 5>>, <<NoPath, MissingUuid>>}
    \cup {<<p, None>> : p \in Paths}

\* the service fails only in uploads to folder 5
UploadInputs ==
    {<<d, NoFail>> : d \in Destinations}
    \cup {<<(<<NoPath, 5>>), b>> : b \in 0..MaxFailAt}

\* the service fails only in searches for "a"
SearchInputs ==
    {<<x, NoFail>> : x \in Patterns} \cup {<<"a", b>> : b \in 0..MaxFailAt}

Upload(e, destination_path, destination_uuid, budget) ==
    Done("upload", e, <<destination_path, destination_uuid>>,
         upload(Exec(heap, store, budget), Env, e, destination_path,
                destination_uuid), 0)

\* the directories the caller downloads to: the working directory (None)
\* and /a/b; the service fails only in downloads to /a/b
DownloadInputs ==
    {<<d, NoFail>> : d \in {NoPath, <<"a", "b">>}}
    \cup {<<(<<"a", "b">>), b>> : b \in 0..MaxFailAt}

Download(e, destination, budget) ==
    LET Written(st) ==
            /\ last.op = "idle"
            /\ heap' = st.heap
            /\ store' = st.store
            /\ disk' = st.disk
            /\ written' = st.written
            /\ last' = Last("download", e, <<destination>>, st, 0)
            /\ UNCHANGED <<client, pageSize, lsOrder>>
    IN Written(download([Exec(heap, store, budget) EXCEPT !.disk = disk,
                                                         !.written = written],
                        Env, e, destination))

CallDownload ==
    \E e \in DOMAIN heap, i \in DownloadInputs : Download(e, i[1], i[2])

\* the paths the caller deletes: the empty string, a number, a relative
\* path, "/", the project /ab (also as "/ab/"), the top-level /a, the
\* folder /ab/b, the files /ab/a and /ab/b/ab, and /ab/ba that is unknown
DeletePaths ==
    {<<>>, NotAString, <<".", "a">>, <<"">>, <<"ab">>, <<"ab", "">>, <<"a">>,
     <<"ab", "b">>, <<"ab", "a">>, <<"ab", "b", "ab">>, <<"ab", "ba">>}

\* Client(...).delete(path)
Delete(path, budget) ==
    Done("delete", NoParent, <<path>>, delete(Exec(heap, store, budget), Env, path), 0)

CallDelete == \E p \in DeletePaths, b \in Budgets : Delete(p, b)

CallSetClient == \E c \in {"ApiClient", "other"} : set_client(c)

CallFromUuid ==
    \E u \in {InvalidUuid, MissingUuid} \cup (1..Len(store)), b \in {0, NoFail} :
        FromUuid(Root, u, b)

\* the remote-backed entity that the upload specification uploads: file 3
CallFromUuidFile == \E b \in {0, NoFail} : FromUuid(Root, 3, b)

\* the dictionaries the caller builds entities from: the records of the
\* service, a record whose uuid is None, a record without the key uuid, and
\* a list
Dictionaries ==
    {Details(store, u) : u \in 1..Len(store)}
    \cup {[entity_type |-> "folder", uuid |-> None, name |-> "a"],
          [entity_type |-> "file", name |-> "a"],
          [items |-> 0]}

CallFromDictionary == \E d \in Dictionaries : FromDictionary(Root, d)

CallFromPath == \E p \in Paths, b \in {0, NoFail} : FromPath(Root, p, b)

CallFromDisk ==
    \E p \in (DOMAIN disk) \cup {<<>>, NotAString, <<".", "a">>, <<"a", "">>,
                                 <<"ab">>} :
        FromDisk(Root, p)

CallExploreChildren == \E e \in DOMAIN heap, b \in Budgets : ExploreChildren(e, b)

CallExploreSubtree == \E e \in DOMAIN heap, b \in Budgets : ExploreSubtree(e, b)

CallSearchSubtree ==
    \E e \in DOMAIN heap, i \in SearchInputs : SearchSubtree(e, i[1], i[2])

CallUpload ==
    \E e \in DOMAIN heap, i \in UploadInputs : Upload(e, i[1][1], i[1][2], i[2])

\* discovery and search in a store that does not change
Next ==
    \/ Return
    \/ CallSetClient
    \/ CallFromDictionary
    \/ CallFromUuid
    \/ CallFromPath
    \/ CallFromDisk
    \/ CallExploreChildren
    \/ CallExploreSubtree
    \/ CallSearchSubtree

Spec == Init /\ [][Next]_vars

\* discovery on disk and upload
InitUpload == Init /\ pageSize = 1

NextUpload ==
    \/ Return
    \/ CallSetClient
    \/ CallFromUuidFile
    \/ CallFromDisk
    \/ CallExploreChildren
    \/ CallExploreSubtree
    \/ CallUpload

SpecUpload == InitUpload /\ [][NextUpload]_vars

\* remote entities and download
InitDownload == Init /\ pageSize = 1 /\ lsOrder = "asc"

NextDownload ==
    \/ Return
    \/ CallSetClient
    \/ CallFromUuid
    \/ CallDownload

SpecDownload == InitDownload /\ [][NextDownload]_vars

\* a session of the caller with every operation, in which the caller
\* transfers once: one upload or one download
UploadOnce == store = InitStore /\ disk = InitDisk /\ CallUpload

DownloadOnce == store = InitStore /\ disk = InitDisk /\ CallDownload

NextSession ==
    \/ Return
    \/ CallSetClient
    \/ CallFromDictionary
    \/ CallFromUuid
    \/ CallFromPath
    \/ CallFromDisk
    \/ CallExploreChildren
    \/ CallExploreSubtree
    \/ CallSearchSubtree
    \/ UploadOnce
    \/ DownloadOnce

SpecSession == InitDownload /\ [][NextSession]_vars

\* a service with folders side by side and folders in folders
\*  1 project "ab"
\*     2 folder "a"
\*        4 folder "a"
\*        5 file "b"
\*     3 folder "b"
\*        6 folder "ab"
DeepStore ==
    << StoreNode("project", "ab", None),
       StoreNode("folder", "a", 1),
       StoreNode("folder", "b", 1),
       StoreNode("folder", "a", 2),
       StoreNode("file", "b", 2),
       StoreNode("folder", "ab", 3) >>

InitDeep ==
    /\ client = FALSE
    /\ heap = <<>>
    /\ store = DeepStore
    /\ disk = InitDisk
    /\ written = <<>>
    /\ pageSize \in 1..MaxPageSize
    /\ lsOrder = "asc"
    /\ last = Idle

\* exploration of the deep service
NextDeep ==
    \/ Return
    \/ CallSetClient
    \/ CallFromUuid
    \/ CallExploreSubtree

SpecDeep == InitDeep /\ [][NextDeep]_vars

\* a caller that deletes by path
NextDelete ==
    \/ Return
    \/ CallDelete

SpecDelete == Init /\ [][NextDelete]_vars

TypeOK ==
    /\ client \in BOOLEAN
    /\ \A e \in DOMAIN heap :
          /\ Range(heap[e].children) \subseteq DOMAIN heap
          /\ heap[e].parent = NoParent \/ heap[e].parent \in DOMAIN heap

----------------------------------------------------------------------------
(* What the claims speak about *)

\* the objects of the tree rooted at e, found through the children lists
RECURSIVE Tree(_, _)
Tree(h, e) ==
    {e} \cup UNION {Tree(h, h[e].children[i]) : i \in 1..Len(h[e].children)}

\* what the children list of e holds, in order
ChildContent(h, e) ==
    [i \in 1..Len(h[e].children) |->
        [entity_type |-> h[h[e].children[i]].entity_type,
         uuid |-> h[h[e].children[i]].uuid,
         name |-> h[h[e].children[i]].name,
         disk_location |-> h[h[e].children[i]].disk_location]]

\* no two entries of the sequence are equal
NoDuplicates(s) == \A i, j \in 1..Len(s) : i # j => s[i] # s[j]

\* the last call was method op and raised nothing
Returned(op) == last.op = op /\ last.err = NoErr

\* the number of pages the service splits n entries into
PageCount(n) == IF n = 0 THEN 1 ELSE ((n + pageSize - 1) \div pageSize)

----------------------------------------------------------------------------
(* C1: explore_children repeated on a container whose backing store did    *)
(* not change leaves children with the same length and content, in the     *)
(* same order, as the call before, and the list never holds two entries    *)
(* for the same child of the store.                                        *)
C1_IdempotentDiscovery ==
    [][ (last'.op = "explore_children" /\ last'.err = NoErr) =>
          /\ NoDuplicates(ChildContent(heap', last'.ent))
          /\ (Returned("explore_children") /\ last.ent = last'.ent) =>
                ChildContent(heap', last'.ent) = ChildContent(heap, last.ent)
      ]_vars

C1_Witness ==
    /\ Returned("explore_children")
    /\ last.streak = 2
    /\ Len(heap[last.ent].children) >= 2

(* C2: explore_children on a remote-backed container whose children come   *)
(* in N pages requests pages 1..N in that order, ordered by name, requests *)
(* nothing after page N, and leaves children equal to the concatenation of *)
(* the pages in page order.                                                *)
C2_PaginationExhaustion ==
    (Returned("explore_children") /\ heap[last.ent].from_service) =>
        LET u == heap[last.ent].uuid
            all == Listing(store, u, NoName, NoName, "name")
            N == PageCount(Len(all))
        IN /\ Len(last.calls) = N
           /\ \A i \in 1..N :
                 /\ last.calls[i].op = "list_folder_content"
                 /\ last.calls[i].id = u
                 /\ last.calls[i].page = i
                 /\ last.calls[i].ordering = "name"
           /\ Len(heap[last.ent].children) = Len(all)
           /\ \A k \in 1..Len(all) :
                 /\ heap[heap[last.ent].children[k]].uuid = all[k]
                 /\ heap[heap[last.ent].children[k]].name = store[all[k]].name
                 /\ heap[heap[last.ent].children[k]].entity_type
                        = store[all[k]].entity_type

C2_Witness ==
    /\ Returned("explore_children")
    /\ heap[last.ent].from_service
    /\ Len(last.calls) >= 2

(* C3: after explore_children on E returned, every element of E.children   *)
(* has parent E; after explore_subtree returned, every entity below E has  *)
(* as parent the entity whose children list holds it.                      *)
C3_ParentLinkage ==
    /\ Returned("explore_children") =>
          \A i \in 1..Len(heap[last.ent].children) :
              heap[heap[last.ent].children[i]].parent = last.ent
    /\ Returned("explore_subtree") =>
          \A x \in Tree(heap, last.ent) :
              \A i \in 1..Len(heap[x].children) :
                  heap[heap[x].children[i]].parent = x

C3_Witness ==
    /\ Returned("explore_subtree")
    /\ \E i \in 1..Len(heap[last.ent].children) :
           heap[heap[last.ent].children[i]].children # <<>>

(* C4: after explore_subtree on a container returned, every container in   *)
(* its subtree holds the children the store lists for it, in the order of  *)
(* discovery, and every file has no children.                              *)
C4_SubtreeCompleteness ==
    (Returned("explore_subtree")
        /\ heap[last.ent].entity_type \in _SUBTREE_TYPES) =>
        \A x \in Tree(heap, last.ent) :
            IF heap[x].entity_type = "file" THEN heap[x].children = <<>>
            ELSE IF heap[x].from_service
            THEN LET all == Listing(store, heap[x].uuid, NoName, NoName, "name")
                 IN /\ Len(heap[x].children) = Len(all)
                    /\ \A k \in 1..Len(all) :
                          /\ heap[heap[x].children[k]].uuid = all[k]
                          /\ heap[heap[x].children[k]].name = store[all[k]].name
                          /\ heap[heap[x].children[k]].entity_type
                                 = store[all[k]].entity_type
            ELSE LET names == listdir(disk, lsOrder, heap[x].disk_location)
                 IN /\ Len(heap[x].children) = Len(names)
                    /\ \A k \in 1..Len(names) :
                          /\ heap[heap[x].children[k]].name = names[k]
                          /\ heap[heap[x].children[k]].disk_location
                                 = join(heap[x].disk_location, names[k])
                          /\ heap[heap[x].children[k]].entity_type
                                 = (IF disk[join(heap[x].disk_location, names[k])] = "dir"
                                    THEN "folder" ELSE "file")

\* the tree A -> {B -> {D}, C} of the remote store
C4_Witness ==
    /\ Returned("explore_subtree")
    /\ heap[last.ent].from_service
    /\ Len(heap[last.ent].children) = 2
    /\ \E i \in 1..2 : Len(heap[heap[last.ent].children[i]].children) = 1

(* C5: search_subtree(pattern) on a container returns the nodes of the     *)
(* materialized tree below and including it whose name matches the         *)
(* pattern, each once, and no node whose name does not match.              *)
C5_SearchCorrectness ==
    Returned("search_subtree") =>
        /\ Range(last.result)
             = {x \in {last.ent} \cup Below(heap, last.ent) :
                   search(last.arg[1], heap[x].name)}
        /\ NoDuplicates(last.result)

\* the root, a grandchild and not every node
C5_Witness ==
    /\ Returned("search_subtree")
    /\ last.ent \in Range(last.result)
    /\ \E x \in Range(last.result) : Len(x) = Len(last.ent) + 2
    /\ \E x \in Below(heap, last.ent) : x \notin Range(last.result)

CreateOps == {"create_folder", "create_file"}

\* the uuid a destination <<path, uuid>> resolves to in store s, None if the
\* service does not know it
DestUuid(s, arg) ==
    IF arg[1] # NoPath THEN ResolvePath(s, arg[1])
    ELSE IF arg[2] \in 1..Len(s) THEN arg[2] ELSE None

\* exactly one of destination_path and destination_uuid is given and it
\* resolves to a project or a folder of store s
ValidDestination(s, arg) ==
    /\ (arg[1] = NoPath) # (arg[2] = None)
    /\ DestUuid(s, arg) # None
    /\ s[DestUuid(s, arg)].entity_type \in _SUBTREE_TYPES

\* the container that destination arg resolves to in store s has a child
\* with the name and the kind of entity x
NameTaken(s, arg, x) ==
    \E u \in 1..Len(s) :
        /\ s[u].parent = DestUuid(s, arg)
        /\ s[u].name = x.name
        /\ s[u].entity_type = x.entity_type

(* C7: an upload of a disk-backed file entity that returned has assigned   *)
(* it a uuid, and an upload called again on that entity, to any valid      *)
(* destination (a container the service knows, with no entity of that name *)
(* and kind in it), raises EntityException and creates nothing.            *)
C7_UploadPromotion ==
    [][ (/\ last'.op = "upload"
         /\ last'.ent = Root
         /\ heap[Root].entity_type = "file"
         /\ ~heap[Root].from_service) =>
          /\ (heap[Root].uuid = None /\ last'.err = NoErr) =>
                heap'[Root].uuid # None
          /\ (/\ heap[Root].uuid # None
              /\ store[heap[Root].uuid].content
              /\ client
              /\ ValidDestination(store, last'.arg)
              /\ ~NameTaken(store, last'.arg, heap[Root])
              /\ last'.err # "StorageException") =>
                /\ last'.err = "EntityException"
                /\ \A i \in 1..Len(last'.calls) :
                      last'.calls[i].op \notin CreateOps
      ]_vars

(* C8: no create-folder or create-file request is ever sent for an entity  *)
(* that already carries a uuid.                                            *)
C8_NeverReuploaded ==
    \A i \in 1..Len(last.calls) :
        last.calls[i].op \in CreateOps => last.calls[i].self_uuid = None

(* C9: when the destination resolves to a container that already has a     *)
(* child with the name and the kind of the entity, upload raises           *)
(* EntityUploadException, sends no create-folder, create-file or           *)
(* content-upload request, and leaves the uuid of every node of the        *)
(* entity's tree as it was.                                                *)
C9_CollisionRejection ==
    [][ (/\ last'.op = "upload"
         /\ client
         /\ ValidDestination(store, last'.arg)
         /\ NameTaken(store, last'.arg, heap[last'.ent])
         /\ last'.err # "StorageException") =>
          /\ last'.err = "EntityUploadException"
          /\ \A i \in 1..Len(last'.calls) :
                last'.calls[i].op \notin CreateOps \cup {"upload_file_content"}
          /\ store' = store
          /\ \A x \in Tree(heap, last'.ent) :
                x \in DOMAIN heap' /\ heap'[x].uuid = heap[x].uuid
      ]_vars

C9_Witness ==
    /\ last.op = "upload"
    /\ last.err = "EntityUploadException"
    /\ Len(last.calls) = 2

(* C10: when upload of a disk-backed entity returned, every node of its    *)
(* materialized subtree carries a uuid, and it is the uuid that the        *)
(* node's own create request returned.                                     *)
C10_UploadPostCondition ==
    (Returned("upload") /\ ~heap[last.ent].from_service) =>
        \A x \in Tree(heap, last.ent) :
            /\ heap[x].uuid # None
            /\ \E i \in 1..Len(last.calls) :
                  /\ last.calls[i].op \in CreateOps
                  /\ last.calls[i].self = x
                  /\ last.calls[i].id = heap[x].uuid
                  /\ \A j \in 1..Len(last.calls) :
                        (last.calls[j].op \in CreateOps /\ last.calls[j].self = x)
                            => j = i

C10_Witness ==
    /\ Returned("upload")
    /\ heap[last.ent].entity_type = "folder"
    /\ heap[last.ent].children # <<>>

(* C11: in an upload, the create request of every node other than the one  *)
(* upload was called on comes after a create request of its parent that    *)
(* was served, and names as parent the uuid that request returned; the     *)
(* record the service created for the node has that uuid as its parent.    *)
C11_UploadParentResolution ==
    last.op = "upload" =>
        \A i \in 1..Len(last.calls) :
            (last.calls[i].op \in CreateOps /\ last.calls[i].self # last.ent) =>
                \E j \in 1..(i - 1) :
                    /\ last.calls[j].op = "create_folder"
                    /\ last.calls[j].self = heap[last.calls[i].self].parent
                    /\ last.calls[j].id # None
                    /\ last.calls[i].parent = last.calls[j].id
                    /\ last.calls[i].id # None =>
                          store[last.calls[i].id].parent = last.calls[j].id

\* a child of the uploaded folder was created below the folder's new record
C11_Witness ==
    /\ Returned("upload")
    /\ \E i \in 1..Len(last.calls) :
          /\ last.calls[i].op \in CreateOps
          /\ last.calls[i].self # last.ent
          /\ store[last.calls[i].id].parent = heap[last.ent].uuid

\* upload was called with no destination or with both
BadDestinations(arg) == (arg[1] = NoPath) = (arg[2] = None)

\* the directory a download with arguments arg writes to
DownloadDest(arg) == IF arg[1] = NoPath THEN getcwd ELSE arg[1]

\* the kind of file system entry an entity of kind entity_type is written as
DiskKind(entity_type) == IF entity_type \in _SUBTREE_TYPES THEN "dir" ELSE "file"

(* C12: in download(destination) the target path of the entity download    *)
(* was called on is destination joined with its name, also when it has a   *)
(* parent; the target path of every other node is the target path of its   *)
(* parent joined with its name; the parent was processed before and its    *)
(* directory exists; every node processed without error is on disk at its  *)
(* target path.                                                            *)
C12_DownloadPathMirroring ==
    last.op = "download" =>
        \A k \in 1..Len(last.visited) :
            LET x == last.visited[k]
            IN /\ IF x = last.ent
                  THEN heap[x].disk_location
                           = join(DownloadDest(last.arg), heap[x].name)
                  ELSE /\ heap[x].parent # NoParent
                       /\ heap[x].disk_location
                              = join(heap[heap[x].parent].disk_location, heap[x].name)
                       /\ \E i \in 1..(k - 1) : last.visited[i] = heap[x].parent
                       /\ isdir(disk, heap[heap[x].parent].disk_location)
               /\ (last.err = NoErr \/ k < Len(last.visited)) =>
                     /\ heap[x].disk_location \in DOMAIN disk
                     /\ disk[heap[x].disk_location] = DiskKind(heap[x].entity_type)

(* C13: on a bound client, download of a file entity whose target path is  *)
(* an existing file raises OSError, sends no request and leaves the file   *)
(* system as it was; download of a container whose target path is an       *)
(* existing directory raises OSError too unless the service failed during  *)
(* the exploration, and leaves the file system as it was.                  *)
C13_DownloadNoOverwrite ==
    [][ (last'.op = "download" /\ client) =>
          LET e == last'.ent
              target == join(DownloadDest(last'.arg), heap[e].name)
          IN /\ (heap[e].entity_type = "file" /\ isfile(disk, target)) =>
                   /\ last'.err = "OSError"
                   /\ last'.calls = <<>>
                   /\ disk' = disk /\ written' = written
             /\ (heap[e].entity_type \in _SUBTREE_TYPES /\ isdir(disk, target)) =>
                   /\ last'.err \in {"OSError", "StorageException"}
                   /\ \A i \in 1..Len(last'.calls) :
                         last'.calls[i].op = "list_folder_content"
                   /\ disk' = disk /\ written' = written
      ]_vars

\* a file was downloaded onto a file that an earlier download wrote
C13_Witness ==
    /\ last.op = "download"
    /\ last.err = "OSError"
    /\ heap[last.ent].entity_type = "file"
    /\ heap[last.ent].disk_location \in DOMAIN written
    /\ last.calls = <<>>

(* C14: upload called on a bound client with neither a destination path    *)
(* nor a destination uuid, or with both, raises EntityArgumentException,    *)
(* sends no request and leaves heap and store as they were.                *)
C14_DestinationArguments ==
    [][ (last'.op = "upload" /\ client /\ BadDestinations(last'.arg)) =>
          /\ last'.err = "EntityArgumentException"
          /\ last'.calls = <<>>
          /\ heap' = heap /\ store' = store
      ]_vars

\* an explored folder was uploaded with both destinations given
C14_Witness ==
    /\ last.op = "upload"
    /\ last.arg[1] # NoPath /\ last.arg[2] # None
    /\ last.err = "EntityArgumentException"
    /\ heap[last.ent].children # <<>>

(* C15: search_subtree called on a container with a pattern that is not a  *)
(* str raises EntityArgumentException without any request sent, whether    *)
(* the children of the container were explored or not, and leaves the      *)
(* tree below the container as it was.                                     *)
C15_PatternArgument ==
    [][ (/\ last'.op = "search_subtree"
         /\ last'.arg[1] = NotAStr
         /\ heap[last'.ent].entity_type \in _SUBTREE_TYPES) =>
          /\ last'.err = "EntityArgumentException"
          /\ last'.calls = <<>>
          /\ heap' = heap
      ]_vars

(* C16: whatever the caller did, an entity of kind file has no children,   *)
(* and explore_subtree called on a file returns without an error, without  *)
(* a request, without a directory listing and without a change of the      *)
(* heap.                                                                   *)
C16_FilesAreLeaves ==
    [][ /\ \A e \in DOMAIN heap' :
              heap'[e].entity_type = "file" => heap'[e].children = <<>>
        /\ (last'.op = "explore_subtree" /\ heap[last'.ent].entity_type = "file") =>
              /\ last'.err = NoErr
              /\ last'.calls = <<>>
              /\ last'.listed = <<>>
              /\ heap' = heap
      ]_vars

\* explore_subtree was called on a file in an explored tree
C16_Witness ==
    /\ Returned("explore_subtree")
    /\ heap[last.ent].entity_type = "file"
    /\ heap[last.ent].parent # NoParent

(* C17: explore_children and search_subtree called on an entity of kind    *)
(* file raise EntityInvalidOperationException, send no request, list no    *)
(* directory and leave the heap as it was.                                 *)
C17_ContainerOnly ==
    [][ (/\ last'.op \in {"explore_children", "search_subtree"}
         /\ heap[last'.ent].entity_type = "file") =>
          /\ last'.err = "EntityInvalidOperationException"
          /\ last'.calls = <<>>
          /\ last'.listed = <<>>
          /\ heap' = heap
      ]_vars

\* explore_children was called on a file found on disk
C17_Witness ==
    /\ last.op = "explore_children"
    /\ last.err = "EntityInvalidOperationException"
    /\ heap[last.ent].entity_type = "file"
    /\ ~heap[last.ent].from_service
    /\ last.ent # Root

\* the exceptions raised with 'This method requires a client set':
\* EntityException by from_uuid, from_path, upload and download, the base
\* class Exception by explore_children
ConfigurationErrors == {"EntityException", "Exception"}

(* C18: while no client is bound, from_uuid, from_path, upload, download   *)
(* and explore_children on a remote-backed container raise the exception   *)
(* for a missing client, send no request and change neither the heap nor   *)
(* the store nor the file system; set_client with an object that is no     *)
(* ApiClient raises TypeError and leaves the binding as it was.            *)
C18_ClientRequired ==
    [][ /\ (/\ ~client
             /\ \/ last'.op \in {"from_uuid", "from_path", "upload", "download"}
                \/ /\ last'.op = "explore_children"
                   /\ heap[last'.ent].from_service
                   /\ heap[last'.ent].entity_type \in _SUBTREE_TYPES) =>
              /\ last'.err \in ConfigurationErrors
              /\ last'.calls = <<>>
              /\ heap' = heap /\ store' = store
              /\ disk' = disk /\ written' = written
        /\ (last'.op = "set_client" /\ last'.arg[1] # "ApiClient") =>
              /\ last'.err = "TypeError"
              /\ client' = client
      ]_vars

\* explore_children was called without a client on a remote-backed folder
C18_Witness ==
    /\ ~client
    /\ last.op = "explore_children"
    /\ last.err \in ConfigurationErrors
    /\ heap[last.ent].from_service

\* the requests of the walk of an upload or a download
WalkOps == CreateOps \cup {"upload_file_content", "get_signed_url",
                          "download_signed_url"}

(* C19: when the walk of an upload or of a download raised at node N, the  *)
(* caller sees the exception, no request was sent twice, every node        *)
(* processed before N has its effect (upload: a uuid, and the record of    *)
(* that uuid in the service, with its content for a file; download: its    *)
(* directory or file on disk), and no node after N was processed: no       *)
(* request was sent for it and its uuid and target path are untouched.     *)
C19_NoRollback ==
    [][ (/\ last'.op \in {"upload", "download"}
         /\ last'.err # NoErr
         /\ last'.visited # <<>>) =>
          LET n == Len(last'.visited)
              walk == {i \in 1..Len(last'.calls) : last'.calls[i].op \in WalkOps}
          IN /\ \A i, j \in walk :
                    (/\ last'.calls[i].op = last'.calls[j].op
                     /\ last'.calls[i].self = last'.calls[j].self) => i = j
             /\ \A k \in 1..(n - 1) :
                    LET x == heap'[last'.visited[k]]
                    IN IF last'.op = "upload"
                       THEN /\ x.uuid \in (Len(store) + 1)..Len(store')
                            /\ store'[x.uuid].name = x.name
                            /\ store'[x.uuid].entity_type = x.entity_type
                            /\ x.entity_type = "file" => store'[x.uuid].content
                       ELSE /\ x.disk_location \in DOMAIN disk'
                            /\ disk'[x.disk_location] = DiskKind(x.entity_type)
                            /\ x.entity_type = "file" =>
                                  written'[x.disk_location] = x.uuid
             /\ \A y \in Tree(heap', last'.ent) \ Range(last'.visited) :
                    /\ \A i \in walk : last'.calls[i].self # y
                    /\ IF y \in DOMAIN heap
                       THEN /\ heap'[y].uuid = heap[y].uuid
                            /\ heap'[y].disk_location = heap[y].disk_location
                       ELSE heap'[y].disk_location = NoPath
                               \/ heap'[y].uuid = None
      ]_vars

\* an upload created the folder and failed at the file in it
C19_Witness ==
    /\ last.op = "upload"
    /\ last.err = "StorageException"
    /\ Len(last.visited) = 2
    /\ heap[last.visited[1]].uuid # None
    /\ Tree(heap, last.ent) # Range(last.visited)

(* C20: every remote-backed entity carries a uuid, and every disk-backed    *)
(* entity carries none unless an upload gave it the uuid of a record that   *)
(* the upload created.                                                      *)
C20_RemoteIdPresence ==
    \A e \in DOMAIN heap :
        IF heap[e].from_service THEN heap[e].uuid # None
        ELSE heap[e].uuid = None \/ heap[e].uuid \in (Len(InitStore) + 1)..Len(store)

(* C21: when the destination of an upload resolves to a record that is no  *)
(* container (a file), upload raises EntityArgumentException, sends no     *)
(* list-children, create-folder, create-file or content-upload request,    *)
(* and leaves the uuid of the entity as it was.                            *)
C21_DestinationKind ==
    [][ (/\ last'.op = "upload"
         /\ client
         /\ ~BadDestinations(last'.arg)
         /\ DestUuid(store, last'.arg) # None
         /\ store[DestUuid(store, last'.arg)].entity_type \notin _SUBTREE_TYPES
         /\ last'.err # "StorageException") =>
          /\ last'.err = "EntityArgumentException"
          /\ \A i \in 1..Len(last'.calls) :
                last'.calls[i].op \notin
                    CreateOps \cup {"upload_file_content", "list_folder_content"}
          /\ store' = store
          /\ last'.ent \in DOMAIN heap'
          /\ heap'[last'.ent].uuid = heap[last'.ent].uuid
      ]_vars

\* an upload to file 3 was refused after the destination was looked up
C21_Witness ==
    /\ last.op = "upload"
    /\ last.arg = <<NoPath, 3>>
    /\ last.err = "EntityArgumentException"
    /\ Len(last.calls) = 1
    /\ last.calls[1].op = "get_entity_by_query"

RECURSIVE TargetPath(_, _, _, _)
\* the path of node x of the tree of relative_root below directory
\* destination: the names from relative_root down to x
TargetPath(h, relative_root, x, destination) ==
    IF x = relative_root THEN join(destination, h[x].name)
    ELSE join(TargetPath(h, relative_root, SubSeq(x, 1, Len(x) - 1), destination),
              h[x].name)

\* the directories the caller downloads to
DownloadDirs == {DownloadDest(<<i[1]>>) : i \in DownloadInputs}

\* the tree of entity e is on disk below directory destination, written by
\* a download, and the nodes record their paths there
WrittenBelow(h, d, w, e, destination) ==
    \A x \in Tree(h, e) :
        LET target == TargetPath(h, e, x, destination)
        IN /\ h[x].disk_location = target
           /\ target \in (DOMAIN d) \ (DOMAIN InitDisk)
           /\ d[target] = DiskKind(h[x].entity_type)
           /\ h[x].entity_type = "file" =>
                 (target \in DOMAIN w /\ w[target] = h[x].uuid)

(* C22: an entity that an earlier download wrote in full is downloaded     *)
(* again, without being constructed anew, to another existing directory in *)
(* which its name is free: unless the service fails the download returns,  *)
(* the tree has lost no node, and every node of it has the target path of  *)
(* the new destination and the names down to the node, was not on disk     *)
(* there before and is on disk there now, a file with its content; what    *)
(* the first download wrote is still in place.                             *)
C22_RepeatedDownload ==
    [][ (/\ last'.op = "download"
         /\ client
         /\ \E d \in DownloadDirs \ {DownloadDest(last'.arg)} :
                WrittenBelow(heap, disk, written, last'.ent, d)
         /\ isdir(disk, DownloadDest(last'.arg))
         /\ join(DownloadDest(last'.arg), heap[last'.ent].name) \notin DOMAIN disk
         /\ last'.err # "StorageException") =>
          /\ last'.err = NoErr
          /\ Tree(heap, last'.ent) \subseteq Tree(heap', last'.ent)
          /\ WrittenBelow(heap', disk', written', last'.ent, DownloadDest(last'.arg))
          /\ \A x \in Tree(heap', last'.ent) :
                heap'[x].disk_location \notin DOMAIN disk
          /\ \A x \in Tree(heap, last'.ent) :
                /\ heap[x].disk_location \in DOMAIN disk'
                /\ disk'[heap[x].disk_location] = disk[heap[x].disk_location]
      ]_vars

\* folder 2 and its file are on disk below / and below /a/b
C22_Witness ==
    /\ Returned("download")
    /\ heap[last.ent].entity_type = "folder"
    /\ heap[last.ent].children # <<>>
    /\ WrittenBelow(heap, disk, written, last.ent, DownloadDest(last.arg))
    /\ \E d \in DownloadDirs \ {DownloadDest(last.arg)} :
          \A x \in Tree(heap, last.ent) :
              /\ TargetPath(heap, last.ent, x, d) \in (DOMAIN disk) \ (DOMAIN InitDisk)
              /\ heap[x].entity_type = "file" =>
                    TargetPath(heap, last.ent, x, d) \in DOMAIN written

\* the positions in the sequence calls of the requests of method op
CallsOf(calls, op) == {i \in 1..Len(calls) : calls[i].op = op}

\* the names of path, the empty segment of a trailing slash left out
PathNames(path) == {i \in 1..Len(path) : path[i] # ""}

\* record u of store s has content
NonEmpty(s, u) == \E v \in 1..Len(s) : s[v].parent = u

(* C23: Client.delete sends no delete-folder request for a folder that has *)
(* content: it raises StorageArgumentException and the store stays as it   *)
(* was; for an empty folder it sends exactly one delete-folder request and *)
(* for a file exactly one delete-file request, for the uuid the path       *)
(* resolves to, and the record is gone; for a path that names a project it *)
(* raises StorageArgumentException before any request.                     *)
C23_DeleteGuard ==
    [][ last'.op = "delete" =>
          LET path == last'.arg[1]
              calls == last'.calls
              target == ResolvePath(store, path)
              answered == last'.err # "StorageException"
          IN /\ \A i \in CallsOf(calls, "delete_folder") :
                    ~NonEmpty(store, calls[i].id)
             /\ (path \in Paths \cup {<<"ab", "">>} /\ Cardinality(PathNames(path)) = 1) =>
                    /\ last'.err = "StorageArgumentException"
                    /\ calls = <<>>
                    /\ store' = store
             /\ (Cardinality(PathNames(path)) >= 2 /\ target # None /\ answered) =>
                    IF store[target].entity_type = "file"
                    THEN /\ last'.err = NoErr
                         /\ Cardinality(CallsOf(calls, "delete_file")) = 1
                         /\ CallsOf(calls, "delete_folder") = {}
                         /\ \A i \in CallsOf(calls, "delete_file") : calls[i].id = target
                         /\ store' = [store EXCEPT ![target] = Deleted]
                    ELSE IF NonEmpty(store, target)
                    THEN /\ last'.err = "StorageArgumentException"
                         /\ CallsOf(calls, "delete_file") = {}
                         /\ store' = store
                    ELSE /\ last'.err = NoErr
                         /\ Cardinality(CallsOf(calls, "delete_folder")) = 1
                         /\ CallsOf(calls, "delete_file") = {}
                         /\ \A i \in CallsOf(calls, "delete_folder") : calls[i].id = target
                         /\ store' = [store EXCEPT ![target] = Deleted]
      ]_vars

\* folder /ab/b was deleted, after its file was
C23_Witness ==
    /\ Returned("delete")
    /\ last.arg = <<(<<"ab", "b">>)>>
    /\ CallsOf(last.calls, "delete_folder") # {}
    /\ store[2] = Deleted
    /\ store[4] = Deleted

\* the containers in the order in which an exploration listed them: the
\* objects of the requests for a first page
ExploreOrder(calls) ==
    LET first == SelectSeq(calls, LAMBDA c : c.op = "list_folder_content" /\ c.page = 1)
    IN [i \in 1..Len(first) |-> first[i].self]

\* object c is a child discovered before its sibling s
EarlierSibling(c, s) ==
    /\ Len(c) = Len(s) /\ Len(c) >= 2
    /\ SubSeq(c, 1, Len(c) - 1) = SubSeq(s, 1, Len(s) - 1)
    /\ c[Len(c)] < s[Len(s)]

\* object a comes before object b level by level: a is less deep, or as
\* deep and to the left of b
LevelBefore(a, b) ==
    \/ Len(a) < Len(b)
    \/ /\ Len(a) = Len(b)
       /\ \E k \in 1..Len(a) :
             /\ SubSeq(a, 1, k - 1) = SubSeq(b, 1, k - 1)
             /\ a[k] < b[k]

(* C24 as stated: explore_subtree explores depth first: every container in *)
(* the subtree of a child is explored before any sibling that was          *)
(* discovered after that child.                                            *)
C24_DepthFirst ==
    last.op = "explore_subtree" =>
        LET order == ExploreOrder(last.calls)
        IN \A j, k \in 1..Len(order) :
              (\E i \in 1..Len(order) :
                    /\ EarlierSibling(order[i], order[k])
                    /\ IsPrefix(order[i], order[j])) => j < k

(* C24 amended: explore_subtree explores breadth first: the containers are *)
(* explored level by level, the siblings in the order of their discovery,  *)
(* so every sibling of a child container is explored before any container  *)
(* in the child's subtree.                                                 *)
C24_BreadthFirst ==
    last.op = "explore_subtree" =>
        LET order == ExploreOrder(last.calls)
        IN /\ \A j, k \in 1..Len(order) :
                 j < k => LevelBefore(order[j], order[k])
           /\ \A j, k \in 1..Len(order) :
                 (\E i \in 1..Len(order) :
                       /\ EarlierSibling(order[i], order[k])
                       /\ IsPrefix(order[i], order[j])
                       /\ order[i] # order[j]) => k < j

\* folder b was explored after its sibling a and before the folder in a
C24_Witness ==
    /\ Returned("explore_subtree")
    /\ \E i, j, k \in 1..Len(ExploreOrder(last.calls)) :
          LET order == ExploreOrder(last.calls)
          IN /\ i < k /\ k < j
             /\ EarlierSibling(order[i], order[k])
             /\ IsPrefix(order[i], order[j])
             /\ order[i] # order[j]

(* C25: search_subtree on a container whose children list is empty         *)
(* explores the subtree first, as explore_subtree does, and searches what  *)
(* it found; on a container whose children list is not empty it sends no   *)
(* request, lists no directory, leaves the heap with every children list   *)
(* as it was, and returns the matching nodes of the tree it holds.         *)
C25_LazyMaterialization ==
    [][ (/\ last'.op = "search_subtree"
         /\ heap[last'.ent].entity_type \in _SUBTREE_TYPES) =>
          LET e == last'.ent
              regex == last'.arg[1]
              explored == explore_subtree(Exec(heap, store, NoFail), Env, e)
          IN IF heap[e].children # <<>>
             THEN /\ last'.calls = <<>>
                  /\ last'.listed = <<>>
                  /\ heap' = heap
                  /\ regex # NotAStr =>
                        /\ last'.err = NoErr
                        /\ last'.result = SearchLoop(heap, regex, <<e>>, <<>>)
             ELSE /\ IsPrefix(last'.calls, explored.calls)
                  /\ IsPrefix(last'.listed, explored.listed)
                  /\ (heap[e].from_service /\ client /\ is_valid_uuid(heap[e].uuid))
                        => last'.calls # <<>>
                  /\ ~heap[e].from_service => last'.listed # <<>>
                  /\ last'.err = NoErr =>
                        /\ last'.calls = explored.calls
                        /\ last'.listed = explored.listed
                        /\ heap' = explored.heap
                        /\ last'.result = SearchLoop(heap', regex, <<e>>, <<>>)
      ]_vars

\* a search in a tree explored before found nodes without a request
C25_Witness ==
    /\ Returned("search_subtree")
    /\ last.calls = <<>>
    /\ last.listed = <<>>
    /\ heap[last.ent].children # <<>>
    /\ \E x \in Range(last.result) : x # last.ent

(* C26: in an upload, a create-file request that was served is followed    *)
(* at once by the content-upload request of the same node for the uuid     *)
(* the create-file request returned, and a content-upload request comes    *)
(* only there; for every folder node processed without error exactly one   *)
(* create-folder request was sent and no content-upload request, for every *)
(* file node exactly one create-file and one content-upload request.       *)
C26_FileUploadSequence ==
    last.op = "upload" =>
        LET calls == last.calls
            processed == {last.visited[k] : k \in
                            {k \in 1..Len(last.visited) :
                                last.err = NoErr \/ k < Len(last.visited)}}
            By(op, x) == {i \in CallsOf(calls, op) : calls[i].self = x}
        IN /\ \A i \in CallsOf(calls, "create_file") :
                 calls[i].id # None =>
                     /\ i < Len(calls)
                     /\ calls[i + 1].op = "upload_file_content"
                     /\ calls[i + 1].id = calls[i].id
                     /\ calls[i + 1].self = calls[i].self
           /\ \A j \in CallsOf(calls, "upload_file_content") :
                 /\ j > 1
                 /\ calls[j - 1].op = "create_file"
                 /\ calls[j - 1].id = calls[j].id
           /\ \A x \in processed :
                 IF heap[x].entity_type = "folder"
                 THEN /\ Cardinality(By("create_folder", x)) = 1
                      /\ By("create_file", x) = {}
                      /\ By("upload_file_content", x) = {}
                 ELSE /\ Cardinality(By("create_file", x)) = 1
                      /\ Cardinality(By("upload_file_content", x)) = 1
                      /\ By("create_folder", x) = {}

\* a folder and the file in it were uploaded
C26_Witness ==
    /\ Returned("upload")
    /\ Len(last.visited) = 2
    /\ \E i \in 1..Len(last.calls) :
          /\ last.calls[i].op = "create_folder"
          /\ last.calls[i + 1].op = "create_file"
          /\ last.calls[i + 2].op = "upload_file_content"
          /\ last.calls[i + 2].id = heap[last.visited[2]].uuid
          /\ i + 2 = Len(last.calls)

(* C27: in every state, also one left by a call that raised, every element *)
(* of the children list of an entity has that entity as its parent.        *)
C27_TreeConsistency ==
    \A e \in DOMAIN heap :
        \A i \in 1..Len(heap[e].children) :
            /\ heap[e].children[i] \in DOMAIN heap
            /\ heap[heap[e].children[i]].parent = e

\* the path on disk of record v, which lies in the store below record u or
\* is u, when u is written into directory destination
MirrorPath(s, u, v, destination) ==
    destination \o SubSeq(StorePath(s, v), Len(StorePath(s, u)), Len(StorePath(s, v)))

(* C28: when download of a container returned, every record that the       *)
(* service holds below the container is on disk, as a directory or a file, *)
(* at the path that mirrors its place below the container, whatever was    *)
(* explored before the download.                                           *)
C28_DownloadComplete ==
    (/\ Returned("download")
     /\ heap[last.ent].entity_type \in _SUBTREE_TYPES
     /\ heap[last.ent].uuid \in 1..Len(store)) =>
        \A v \in 1..Len(store) :
            IsUnder(store, v, heap[last.ent].uuid) =>
                LET target == MirrorPath(store, heap[last.ent].uuid, v,
                                         DownloadDest(last.arg))
                IN /\ target \in DOMAIN disk
                   /\ disk[target] = DiskKind(store[v].entity_type)

(* C29: the create request of the entity that upload was called on names   *)
(* as parent the uuid that the destination resolves to, also when the      *)
(* entity has a parent that carries a uuid.                                *)
C29_RootUnderDestination ==
    last.op = "upload" =>
        \A i \in 1..Len(last.calls) :
            (last.calls[i].op \in CreateOps /\ last.calls[i].self = last.ent) =>
                last.calls[i].parent = DestUuid(store, last.arg)

(* C30: in every state, the record of a disk-backed file entity that       *)
(* carries a uuid has received its content: a content upload that failed   *)
(* leaves no uuid on the entity.                                           *)
C30_UuidMeansContent ==
    \A e \in DOMAIN heap :
        (/\ ~heap[e].from_service
         /\ heap[e].entity_type = "file"
         /\ heap[e].uuid # None) =>
            /\ heap[e].uuid \in 1..Len(store)
            /\ store[heap[e].uuid].content

====
